---- MODULE Spec2Model ----
(***************************************************************************)
(* Crypto Crash round engine (server/server.js): the round cycle driven by *)
(* timers, crash-point generation, and the /api/bet and cashout handlers   *)
(* against the wallets collection.                                         *)
(*                                                                         *)
(* Units.  Time is in milliseconds (Date.now()).  Multipliers and crash    *)
(* points are fixed-point numbers with MultScale units per 1.0x, so that   *)
(* 1 + elapsedSeconds * 0.1 is MultScale + elapsedMs.  Coin amounts are    *)
(* fixed-point numbers with CoinScale units per coin; divisions truncate.  *)
(* JavaScript runs one callback at a time: every action below is one run   *)
(* of a callback up to its next await on real I/O (a MongoDB call when db  *)
(* is attached).                                                           *)
(***************************************************************************)
EXTENDS Integers, Sequences, FiniteSets, TLC

\* ------------------------------------------------------------- bounds
MaxTime == 15100        \* the clock stops advancing here
MaxReqs == 2            \* bet requests and cashout messages in one behaviour
MaxRaceReqs == 3        \* the same, in the behaviours of one player racing itself
HexDigits == 3          \* hex digits of the hash prefix (8 in the code)
MaxAwaitSpan == 1       \* timer callbacks that run while one database call is pending
MaxLiveReqs == 1        \* bet requests in the behaviours checked for progress

\* ------------------------------------------------- program constants
Null == -1              \* JavaScript null / undefined
MultScale == 10000      \* fixed-point units per 1.0x: 0.1x per second
CoinScale == 100000     \* fixed-point units per coin
TickMs == 100
CrashDisplayMs == 5000
BettingMs == 10000
MinBetUsd == 1
MaxBetUsd == 1000
FallbackBTC == 65000
FallbackETH == 3500
DefaultBTC == 1000      \* 0.01 BTC in CoinScale units
DefaultETH == 100000    \* 1.0 ETH in CoinScale units
CrashFloor == 10100     \* 1.01x
CrashCap == 1000000     \* 100x
HouseEdge == 9900       \* 0.99x
Infinity == 2000000000  \* IEEE +Infinity, above every finite value used

Players == {"p1", "p2"}
CryptoTypes == {"BTC", "ETH"}

VARIABLES
  gameState,      \* the global gameState object
  cryptoPrices,   \* the global price table
  db,             \* TRUE once connectDB has set the db handle
  wallets,        \* the wallets collection: username -> sequence of documents
  now,            \* Date.now()
  timers,         \* pending setTimeout callbacks: [kind, due]
  initPc,         \* position of initializeGame
  betReqs,        \* /api/bet handlers awaiting the database: their locals
  cashReqs,       \* cashout handlers awaiting the database: their locals
  nReqs,          \* bet requests and cashout messages received so far
  emitted,        \* events and responses sent, and console.error lines
                  \* written, by the last step, in order
  resets,         \* number of times the per-round maps were replaced
  debits,         \* per player: bets recorded since the maps were replaced
  announced,      \* per player: the roundId its recorded bet was answered with
  credits,        \* per player: cashouts recorded since the maps were replaced
  generated,      \* per seed: the crash points generateCrashPoint returned
  played,         \* players whose bet was in the map when the round started
  genIn,          \* hash prefix handed to the crash-point formula
  genOut,         \* crash point computed from genIn
  priceUpdateInterval, \* TRUE while the 10 s price interval is installed
  shutdown,       \* TRUE once the SIGTERM handler has run
  archiveReqs,    \* rounds.insertOne calls of crashGame awaiting the database
  appends         \* archive writes issued for the round gameState.roundId

vars == <<gameState, cryptoPrices, db, wallets, now, timers, initPc,
          betReqs, cashReqs, nReqs, emitted, resets, debits, announced,
          credits, generated, played, genIn, genOut, priceUpdateInterval,
          shutdown, archiveReqs, appends>>

\* what the request handlers leave alone
roundVars == <<cryptoPrices, db, now, timers, initPc, resets, generated,
              played, genIn, genOut, priceUpdateInterval, shutdown,
              archiveReqs, appends>>
\* what the timers and the price feed leave alone
reqVars == <<db, wallets, nReqs, genIn, genOut, shutdown>>

\* ------------------------------------------------------------ helpers
Pow16(n) == IF n = 0 THEN 1 ELSE IF n = 1 THEN 16 ELSE IF n = 2 THEN 256
            ELSE IF n = 3 THEN 4096 ELSE IF n = 4 THEN 65536 ELSE 1048576

\* 0xffffffff at the modelled width: the largest value of the hash prefix
HashMax == Pow16(HexDigits) - 1

MathMax(a, b) == IF a >= b THEN a ELSE b
MathMin(a, b) == IF a <= b THEN a ELSE b

\* the values crypto.randomBytes(32) returns
Seeds == {1, 2}
\* the same, for rounds that run long: seed 79 gives a crash point near 78x
LongSeeds == {1, 79}

\* crypto.createHash("sha256").update(seed).digest("hex"): a fixed function
\* of the seed; the digest is represented by its leading HexDigits digits.
sha256(seed) == (seed * HashMax) \div 80

\* parseInt(hash.substring(0, 8), 16)
hashPrefix(hash) == hash

\* Math.min(Math.max(1.01, (1 / (1 - randomValue)) * 0.99), 100) with
\* randomValue = prefix / 0xffffffff; 1 / 0 is +Infinity in IEEE arithmetic.
crashPointNoCap(prefix) ==
  LET raw == IF prefix = HashMax THEN Infinity
             ELSE (HouseEdge * HashMax) \div (HashMax - prefix)
  IN MathMax(CrashFloor, raw)

crashPointOfPrefix(prefix) ==
  LET raw == IF prefix = HashMax THEN Infinity
             ELSE (HouseEdge * HashMax) \div (HashMax - prefix)
      crashPoint == MathMax(CrashFloor, raw)
  IN MathMin(crashPoint, CrashCap)

\* A generator that mixes the clock into the hash prefix.
generateCrashPointTimed(seed) ==
  [crashPoint |-> crashPointOfPrefix(hashPrefix(sha256(seed)) + now \div TickMs),
   seed |-> seed]

generateCrashPoint(seed) ==
  [crashPoint |-> crashPointOfPrefix(hashPrefix(sha256(seed))), seed |-> seed]

FallbackPrices == [BTC |-> FallbackBTC, ETH |-> FallbackETH]
\* the price table the price source returns when it answers
PriceTables == {[BTC |-> 50000, ETH |-> 2800]}

DefaultBalances == [BTC |-> DefaultBTC, ETH |-> DefaultETH]

NoPlayers == [p \in {} |-> 0]

InitGameState ==
  [isActive |-> FALSE, roundId |-> Null, startTime |-> Null,
   multiplier |-> MultScale, crashPoint |-> Null, seed |-> Null,
   players |-> NoPlayers, cashedOut |-> NoPlayers, isBettingOpen |-> FALSE]

\* console.error(message, error)
ConsoleError(message) == [type |-> "console.error", message |-> message]

MapSet(m, k, v) == [x \in DOMAIN m \cup {k} |-> IF x = k THEN v ELSE m[x]]

\* ------------------------------------------------------- round cycle
\* Each of the following operators is a synchronous function of the
\* server: it maps the game state and the value of Date.now() to the state,
\* the events, the timers and the archive write that the call leaves behind.

\* The document crashGame hands to db.collection("rounds").insertOne, built
\* when the round crashes; nothing is written without a database.
roundDocument(gs, at) ==
  IF db
  THEN {[roundId |-> gs.roundId, crashPoint |-> gs.crashPoint,
         seed |-> gs.seed, startTime |-> gs.startTime, endTime |-> at,
         players |-> gs.players]}
  ELSE {}

\* A crash that schedules the reopening of betting only when there is no
\* archive write to wait for.
crashGameArchiveFirst(gs, at) ==
  LET g == [gs EXCEPT !.isActive = FALSE]
  IN [gs |-> g,
      events |-> <<[type |-> "roundCrash", roundId |-> g.roundId,
                    crashPoint |-> g.crashPoint],
                   [type |-> "crashDisplay", crashPoint |-> g.crashPoint,
                    roundId |-> g.roundId]>>,
      timers |-> IF db THEN {}
                 ELSE {[kind |-> "display", due |-> at + CrashDisplayMs]},
      archive |-> roundDocument(g, at)]

\* A crash that leaves the round marked active.
crashGameStillActive(gs, at) ==
  [gs |-> gs,
   events |-> <<[type |-> "roundCrash", roundId |-> gs.roundId,
                 crashPoint |-> gs.crashPoint],
                [type |-> "crashDisplay", crashPoint |-> gs.crashPoint,
                 roundId |-> gs.roundId]>>,
   timers |-> {[kind |-> "display", due |-> at + CrashDisplayMs]},
   archive |-> roundDocument(gs, at)]

\* A crash that arms the display delay twice.
crashGameDoubleDisplay(gs, at) ==
  LET g == [gs EXCEPT !.isActive = FALSE]
  IN [gs |-> g,
      events |-> <<[type |-> "roundCrash", roundId |-> g.roundId,
                    crashPoint |-> g.crashPoint],
                   [type |-> "crashDisplay", crashPoint |-> g.crashPoint,
                    roundId |-> g.roundId]>>,
      timers |-> {[kind |-> "display", due |-> at + CrashDisplayMs],
                  [kind |-> "display", due |-> at + CrashDisplayMs + TickMs]},
      archive |-> roundDocument(g, at)]

\* A crash that forgets the seed of the round.
crashGameForgetting(gs, at) ==
  LET g == [gs EXCEPT !.isActive = FALSE, !.seed = Null]
  IN [gs |-> g,
      events |-> <<[type |-> "roundCrash", roundId |-> g.roundId,
                    crashPoint |-> g.crashPoint],
                   [type |-> "crashDisplay", crashPoint |-> g.crashPoint,
                    roundId |-> g.roundId]>>,
      timers |-> {[kind |-> "display", due |-> at + CrashDisplayMs]},
      archive |-> roundDocument(g, at)]

\* A crash that does not schedule the reopening of betting.
crashGameNoReopen(gs, at) ==
  LET g == [gs EXCEPT !.isActive = FALSE]
  IN [gs |-> g,
      events |-> <<[type |-> "roundCrash", roundId |-> g.roundId,
                    crashPoint |-> g.crashPoint],
                   [type |-> "crashDisplay", crashPoint |-> g.crashPoint,
                    roundId |-> g.roundId]>>,
      timers |-> {},
      archive |-> roundDocument(g, at)]

crashGame(gs, at) ==
  LET g == [gs EXCEPT !.isActive = FALSE]
  IN [gs |-> g,
      events |-> <<[type |-> "roundCrash", roundId |-> g.roundId,
                    crashPoint |-> g.crashPoint],
                   [type |-> "crashDisplay", crashPoint |-> g.crashPoint,
                    roundId |-> g.roundId]>>,
      timers |-> {[kind |-> "display", due |-> at + CrashDisplayMs]},
      archive |-> roundDocument(g, at)]

\* updateMultiplier adding one tick period per tick.
updateMultiplierCounting(gs, at) ==
  IF ~gs.isActive
  THEN [gs |-> gs, events |-> <<>>, timers |-> {}, archive |-> {}]
  ELSE LET g == [gs EXCEPT !.multiplier =
                   IF at = gs.startTime THEN MultScale ELSE @ + TickMs]
       IN IF g.multiplier >= g.crashPoint
          THEN crashGame(g, at)
          ELSE [gs |-> g,
                events |-> <<[type |-> "multiplierUpdate",
                              roundId |-> g.roundId,
                              multiplier |-> g.multiplier]>>,
                timers |-> {[kind |-> "tick", due |-> at + TickMs]},
                archive |-> {}]

\* updateMultiplier crashing only above the crash point.
updateMultiplierStrict(gs, at) ==
  IF ~gs.isActive
  THEN [gs |-> gs, events |-> <<>>, timers |-> {}, archive |-> {}]
  ELSE LET elapsed == at - gs.startTime
           g == [gs EXCEPT !.multiplier = MultScale + elapsed]
       IN IF g.multiplier > g.crashPoint
          THEN crashGame(g, at)
          ELSE [gs |-> g,
                events |-> <<[type |-> "multiplierUpdate",
                              roundId |-> g.roundId,
                              multiplier |-> g.multiplier]>>,
                timers |-> {[kind |-> "tick", due |-> at + TickMs]},
                archive |-> {}]

\* updateMultiplier without the return after crashGame().
updateMultiplierNoReturn(gs, at) ==
  IF ~gs.isActive
  THEN [gs |-> gs, events |-> <<>>, timers |-> {}, archive |-> {}]
  ELSE LET elapsed == at - gs.startTime
           g == [gs EXCEPT !.multiplier = MultScale + elapsed]
           c == IF g.multiplier >= g.crashPoint
                THEN crashGame(g, at)
                ELSE [gs |-> g, events |-> <<>>, timers |-> {}, archive |-> {}]
       IN [gs |-> c.gs,
           events |-> c.events \o <<[type |-> "multiplierUpdate",
                                     roundId |-> g.roundId,
                                     multiplier |-> g.multiplier]>>,
           timers |-> c.timers \cup {[kind |-> "tick", due |-> at + TickMs]},
           archive |-> c.archive]

updateMultiplier(gs, at) ==
  IF ~gs.isActive
  THEN [gs |-> gs, events |-> <<>>, timers |-> {}, archive |-> {}]
  ELSE LET elapsed == at - gs.startTime
           g == [gs EXCEPT !.multiplier = MultScale + elapsed]
       IN IF g.multiplier >= g.crashPoint
          THEN crashGame(g, at)
          ELSE [gs |-> g,
                events |-> <<[type |-> "multiplierUpdate",
                              roundId |-> g.roundId,
                              multiplier |-> g.multiplier]>>,
                timers |-> {[kind |-> "tick", due |-> at + TickMs]},
                archive |-> {}]

\* A round start that replaces the maps.
startNewRoundClearing(gs, seed, at) ==
  LET gen == generateCrashPoint(seed)
      g == [gs EXCEPT !.isActive = TRUE, !.roundId = at, !.startTime = at,
                      !.multiplier = MultScale, !.crashPoint = gen.crashPoint,
                      !.seed = gen.seed, !.isBettingOpen = FALSE,
                      !.players = NoPlayers, !.cashedOut = NoPlayers]
      u == updateMultiplier(g, at)
  IN [gs |-> u.gs,
      events |-> <<[type |-> "roundStart", roundId |-> g.roundId,
                    multiplier |-> MultScale]>> \o u.events,
      timers |-> u.timers,
      archive |-> u.archive]

\* A round start that announces the crash point with the round.
startNewRoundLeaky(gs, seed, at) ==
  LET gen == generateCrashPoint(seed)
      g == [gs EXCEPT !.isActive = TRUE, !.roundId = at, !.startTime = at,
                      !.multiplier = MultScale, !.crashPoint = gen.crashPoint,
                      !.seed = gen.seed, !.isBettingOpen = FALSE]
      u == updateMultiplier(g, at)
  IN [gs |-> u.gs,
      events |-> <<[type |-> "roundStart", roundId |-> g.roundId,
                    multiplier |-> MultScale,
                    crashPoint |-> g.crashPoint]>> \o u.events,
      timers |-> u.timers,
      archive |-> u.archive]

startNewRound(gs, seed, at) ==
  LET gen == generateCrashPoint(seed)
      g == [gs EXCEPT !.isActive = TRUE, !.roundId = at, !.startTime = at,
                      !.multiplier = MultScale, !.crashPoint = gen.crashPoint,
                      !.seed = gen.seed, !.isBettingOpen = FALSE]
      u == updateMultiplier(g, at)
  IN [gs |-> u.gs,
      events |-> <<[type |-> "roundStart", roundId |-> g.roundId,
                    multiplier |-> MultScale]>> \o u.events,
      timers |-> u.timers,
      archive |-> u.archive]

\* ------------------------------------------------------------- Init
InitServer ==
  /\ gameState = InitGameState
  /\ cryptoPrices = FallbackPrices
  /\ db = FALSE
  /\ wallets = [p \in Players |-> <<>>]
  /\ now = 0
  /\ timers = {}
  /\ initPc = "connectDB"
  /\ betReqs = {}
  /\ cashReqs = {}
  /\ nReqs = 0
  /\ emitted = <<>>
  /\ resets = 0
  /\ debits = [p \in Players |-> 0]
  /\ announced = NoPlayers
  /\ credits = [p \in Players |-> 0]
  /\ generated = [s \in Seeds \cup LongSeeds |-> <<>>]
  /\ played = {}
  /\ priceUpdateInterval = FALSE
  /\ shutdown = FALSE
  /\ archiveReqs = {}
  /\ appends = 0

Init ==
  /\ InitServer
  /\ genIn = 0
  /\ genOut = Null

\* ----------------------------------------------------------- actions
\* connectDB resolves: the handle is set, or the connection failed and
\* the server runs without a database.
ConnectDB ==
  /\ initPc = "connectDB"
  /\ \E ok \in BOOLEAN : db' = ok
  /\ initPc' = "fetchPrices"
  /\ emitted' = <<>>
  /\ UNCHANGED <<gameState, cryptoPrices, wallets, now, timers, betReqs,
                 cashReqs, nReqs, resets, debits, announced, credits, generated,
                 played, genIn, genOut, priceUpdateInterval, shutdown,
                 archiveReqs, appends>>

\* The first fetchCryptoPrices of initializeGame resolves; initializeGame
\* then sets the price interval and starts the first round.
InitFetchDoneOf(seeds) ==
  /\ initPc = "fetchPrices"
  /\ \E ok \in BOOLEAN, prices \in PriceTables, seed \in seeds :
       LET r == startNewRound(gameState, seed, now)
       IN /\ cryptoPrices' = IF ok THEN prices ELSE cryptoPrices
          /\ gameState' = r.gs
          /\ timers' = timers \cup r.timers
          /\ emitted' = (IF ok THEN <<[type |-> "priceUpdate", prices |-> prices]>>
                         ELSE <<ConsoleError("Price fetch error:")>>) \o r.events
          /\ generated' = [generated EXCEPT ![seed] = Append(@, r.gs.crashPoint)]
          /\ played' = DOMAIN r.gs.players
          /\ archiveReqs' = archiveReqs \cup r.archive
          /\ appends' = Cardinality(r.archive)
  /\ priceUpdateInterval' = TRUE
  /\ initPc' = "done"
  /\ UNCHANGED <<now, resets, debits, announced, credits, betReqs, cashReqs>>
  /\ UNCHANGED reqVars

InitFetchDone == InitFetchDoneOf(Seeds)

\* A fetchCryptoPrices started by the price interval resolves: the request
\* failed, or the source answered with prices that have moved.
\* A price fetch whose failure puts the fallback prices back.
FetchCryptoPricesResetting ==
  /\ initPc = "done"
  /\ priceUpdateInterval
  /\ \E ok \in BOOLEAN, prices \in PriceTables :
       /\ ok => prices # cryptoPrices
       /\ cryptoPrices' = IF ok THEN prices ELSE FallbackPrices
       /\ emitted' = IF ok THEN <<[type |-> "priceUpdate", prices |-> prices]>>
                     ELSE <<ConsoleError("Price fetch error:")>>
  /\ UNCHANGED <<gameState, now, timers, initPc, resets, debits, announced, credits,
                 betReqs, cashReqs, generated, played, priceUpdateInterval,
                 archiveReqs, appends>>
  /\ UNCHANGED reqVars

FetchCryptoPrices ==
  /\ initPc = "done"
  /\ priceUpdateInterval
  /\ \E ok \in BOOLEAN, prices \in PriceTables :
       /\ ok => prices # cryptoPrices
       /\ cryptoPrices' = IF ok THEN prices ELSE cryptoPrices
       /\ emitted' = IF ok THEN <<[type |-> "priceUpdate", prices |-> prices]>>
                     ELSE <<ConsoleError("Price fetch error:")>>
  /\ UNCHANGED <<gameState, now, timers, initPc, resets, debits, announced, credits,
                 betReqs, cashReqs, generated, played, priceUpdateInterval,
                 archiveReqs, appends>>
  /\ UNCHANGED reqVars

\* Timers fire in the order of their deadlines.  The callback of a timer
\* reads Date.now() as its deadline, or as a later time when it runs late
\* (setTimeout fires no earlier than its delay).  Nothing else reads the
\* clock.
NextDue == CHOOSE d \in {t.due : t \in timers} : \A t \in timers : d <= t.due

\* A pending database call has seen one more timer callback run.
Aged(reqs) == {[r EXCEPT !.span = @ + 1] : r \in reqs}

\* A timer callback runs at time `at`.  A wallet call is outstanding across
\* at most MaxAwaitSpan timer callbacks, and the archive write of a crashed
\* round is settled by the time the next round starts.
Fires(t, kind, at) ==
  /\ t.kind = kind
  /\ t.due = NextDue
  /\ at >= now
  /\ at <= MaxTime
  /\ now' = at
  /\ \A r \in betReqs \cup cashReqs : r.span < MaxAwaitSpan
  /\ \A a \in archiveReqs : at < a.endTime + CrashDisplayMs + BettingMs
  /\ betReqs' = Aged(betReqs)
  /\ cashReqs' = Aged(cashReqs)

\* setTimeout(updateMultiplier, 100) fires, `late` milliseconds late.
TickTimerAt(lates) ==
  \E t \in timers, late \in lates :
    /\ Fires(t, "tick", t.due + late)
    /\ LET r == updateMultiplier(gameState, t.due + late)
       IN /\ gameState' = r.gs
          /\ timers' = (timers \ {t}) \cup r.timers
          /\ emitted' = r.events
          /\ archiveReqs' = archiveReqs \cup r.archive
          /\ appends' = appends + Cardinality(r.archive)
    /\ UNCHANGED <<cryptoPrices, initPc, resets, debits, announced, credits, generated,
                   played, priceUpdateInterval>>
    /\ UNCHANGED reqVars

TickTimer == TickTimerAt({0})

\* The 5 second callback of crashGame fires: the maps are replaced and
\* betting opens for 10 seconds.
CrashDisplayTimer ==
  \E t \in timers :
    /\ Fires(t, "display", t.due)
    /\ gameState' = [gameState EXCEPT !.players = NoPlayers,
                                      !.cashedOut = NoPlayers,
                                      !.isBettingOpen = TRUE]
    /\ timers' = (timers \ {t}) \cup {[kind |-> "betting", due |-> t.due + BettingMs]}
    /\ emitted' = <<[type |-> "bettingOpen", duration |-> BettingMs]>>
    /\ resets' = resets + 1
    /\ debits' = [p \in Players |-> 0]
    /\ announced' = NoPlayers
    /\ credits' = [p \in Players |-> 0]
    /\ played' = {}
    /\ UNCHANGED <<cryptoPrices, initPc, generated, priceUpdateInterval,
                   archiveReqs, appends>>
    /\ UNCHANGED reqVars

\* The 10 second callback fires: betting closes and the next round starts.
BettingTimer ==
  \E t \in timers :
    /\ Fires(t, "betting", t.due)
    /\ \E seed \in Seeds :
         LET r == startNewRound([gameState EXCEPT !.isBettingOpen = FALSE],
                                seed, t.due)
         IN /\ gameState' = r.gs
            /\ timers' = (timers \ {t}) \cup r.timers
            /\ emitted' = r.events
            /\ generated' = [generated EXCEPT ![seed] = Append(@, r.gs.crashPoint)]
            /\ played' = DOMAIN r.gs.players
            /\ archiveReqs' = archiveReqs \cup r.archive
            /\ appends' = Cardinality(r.archive)
    /\ UNCHANGED <<cryptoPrices, initPc, resets, debits, announced, credits,
                   priceUpdateInterval>>
    /\ UNCHANGED reqVars

\* ------------------------------------------------------ POST /api/bet
\* Request bodies tried: "" is a missing username, 0 a missing usdAmount.
BetInputs ==
  {<<"p1", 400, "BTC">>, <<"p1", 700, "BTC">>, <<"", 400, "BTC">>,
   <<"p1", 0, "BTC">>, <<"p2", 1001, "ETH">>, <<"p2", 400, "DOGE">>}

\* One player sending the same valid bet again and again.
RaceInputs == {<<"p1", 400, "BTC">>}

Phase(gs) == IF gs.isActive THEN "ACTIVE"
             ELSE IF gs.isBettingOpen THEN "BETTING_OPEN"
             ELSE IF gs.roundId = Null THEN "IDLE" ELSE "CRASHED"

\* The checks of the handler with the checks on the round moved to the front.
BetRejectRoundFirst(username, usdAmount, cryptoType) ==
  IF username \in DOMAIN gameState.players
  THEN "Already placed bet this round"
  ELSE IF gameState.isActive THEN "Betting is closed"
  ELSE IF username = "" \/ usdAmount = 0 \/ cryptoType = ""
  THEN "Missing required fields"
  ELSE IF usdAmount < MinBetUsd \/ usdAmount > MaxBetUsd
  THEN "Bet must be between $1 and $1000"
  ELSE IF cryptoType \notin CryptoTypes THEN "Invalid crypto type"
  ELSE ""

\* The synchronous checks of the handler, in order; "" when all pass.
BetReject(username, usdAmount, cryptoType) ==
  IF username = "" \/ usdAmount = 0 \/ cryptoType = ""
  THEN "Missing required fields"
  ELSE IF usdAmount < MinBetUsd \/ usdAmount > MaxBetUsd
  THEN "Bet must be between $1 and $1000"
  ELSE IF cryptoType \notin CryptoTypes THEN "Invalid crypto type"
  ELSE IF username \in DOMAIN gameState.players
  THEN "Already placed bet this round"
  ELSE IF gameState.isActive THEN "Betting is closed"
  ELSE ""

\* usdAmount / cryptoPrices[cryptoType]
UsdToCrypto(usdAmount, price) == (usdAmount * CoinScale) \div price

\* $inc of balances.<cryptoType> on the first document matching username;
\* no document matches: nothing is modified.
IncWallet(w, username, cryptoType, delta) ==
  IF w[username] = <<>> THEN w
  ELSE [w EXCEPT ![username][1][cryptoType] = @ + delta]

BetError(req, msg) ==
  [type |-> "betResponse", to |-> req.username, success |-> FALSE,
   error |-> msg]

\* Handlers that are awaiting the database are told apart by a number.
FreeId(reqs) == CHOOSE i \in 1..(Cardinality(reqs) + 1) :
                  /\ \A r \in reqs : r.id # i
                  /\ \A j \in 1..(i - 1) : \E r \in reqs : r.id = j

\* Lines 321-345: the bet is put into the map, broadcast and answered.
BetCommit(req, logged) ==
  /\ gameState' =
       [gameState EXCEPT !.players =
          MapSet(@, req.username,
                 [usdAmount |-> req.usdAmount, cryptoAmount |-> req.cryptoAmount,
                  cryptoType |-> req.cryptoType,
                  priceAtTime |-> cryptoPrices[req.cryptoType]])]
  /\ emitted' = logged \o
                <<[type |-> "playerBet", username |-> req.username,
                   usdAmount |-> req.usdAmount, cryptoType |-> req.cryptoType,
                   roundId |-> gameState.roundId],
                  [type |-> "betResponse", to |-> req.username,
                   success |-> TRUE,
                   roundId |-> gameState.roundId, usdAmount |-> req.usdAmount,
                   cryptoAmount |-> req.cryptoAmount,
                   cryptoType |-> req.cryptoType]>>
  /\ betReqs' = betReqs \ {req}
  /\ debits' = [debits EXCEPT ![req.username] = @ + 1]
  /\ announced' = MapSet(announced, req.username, gameState.roundId)

\* A balance check that refuses the bet after putting it into the map.
BetAfterWalletRecording(req, pending, balances, logged) ==
  IF balances[req.cryptoType] < req.cryptoAmount
  THEN /\ betReqs' = betReqs \ {pending}
       /\ emitted' = logged \o <<BetError(req, "Insufficient balance")>>
       /\ gameState' =
            [gameState EXCEPT !.players =
               MapSet(@, req.username,
                      [usdAmount |-> req.usdAmount,
                       cryptoAmount |-> req.cryptoAmount,
                       cryptoType |-> req.cryptoType,
                       priceAtTime |-> cryptoPrices[req.cryptoType]])]
       /\ UNCHANGED <<debits, announced>>
  ELSE /\ betReqs' = (betReqs \ {pending}) \cup {[req EXCEPT !.pc = "updateOne", !.span = 0]}
       /\ emitted' = logged
       /\ UNCHANGED <<gameState, debits, announced>>

\* Lines 301-319: the balance check on the wallet that getOrCreateWallet
\* returned, then the debit is issued when a database is attached.
BetAfterWallet(req, pending, balances, logged) ==
  IF balances[req.cryptoType] < req.cryptoAmount
  THEN /\ betReqs' = betReqs \ {pending}
       /\ emitted' = logged \o <<BetError(req, "Insufficient balance")>>
       /\ UNCHANGED <<gameState, debits, announced>>
  ELSE /\ betReqs' = (betReqs \ {pending}) \cup {[req EXCEPT !.pc = "updateOne", !.span = 0]}
       /\ emitted' = logged
       /\ UNCHANGED <<gameState, debits, announced>>

\* The handler runs from the request to its first await on the database;
\* without a database it runs to its end.
BetStartOf(inputs, budget) ==
  /\ nReqs < budget
  /\ nReqs' = nReqs + 1
  /\ \E inp \in inputs :
       LET err == BetReject(inp[1], inp[2], inp[3])
           req == [id |-> FreeId(betReqs), username |-> inp[1],
                   usdAmount |-> inp[2],
                   cryptoType |-> inp[3],
                   cryptoAmount |-> IF err = ""
                                    THEN UsdToCrypto(inp[2], cryptoPrices[inp[3]])
                                    ELSE 0,
                   pc |-> "findOne", span |-> 0]
       IN IF err # ""
          THEN /\ emitted' = <<BetError(req, err)>>
               /\ UNCHANGED <<gameState, betReqs, debits, announced>>
          ELSE IF db
          THEN /\ betReqs' = betReqs \cup {req}
               /\ emitted' = <<>>
               /\ UNCHANGED <<gameState, debits, announced>>
          ELSE IF DefaultBalances[req.cryptoType] < req.cryptoAmount
          THEN /\ emitted' = <<BetError(req, "Insufficient balance")>>
               /\ UNCHANGED <<gameState, betReqs, debits, announced>>
          ELSE BetCommit(req, <<>>)
  /\ UNCHANGED <<wallets, cashReqs, credits>>
  /\ UNCHANGED roundVars

BetStart == BetStartOf(BetInputs, MaxReqs)

\* getOrCreateWallet: findOne resolves (or throws: the catch returns the
\* default wallet).  No document: insertOne is issued.
BetFindOneDone ==
  \E req \in betReqs, ok \in BOOLEAN :
    /\ req.pc = "findOne"
    /\ IF ~ok THEN BetAfterWallet(req, req, DefaultBalances,
                                  <<ConsoleError("Wallet error:")>>)
       ELSE IF wallets[req.username] # <<>>
       THEN BetAfterWallet(req, req, wallets[req.username][1], <<>>)
       ELSE /\ betReqs' = (betReqs \ {req}) \cup {[req EXCEPT !.pc = "insertOne", !.span = 0]}
            /\ emitted' = <<>>
            /\ UNCHANGED <<gameState, debits, announced>>
    /\ UNCHANGED <<wallets, cashReqs, nReqs, credits>>
    /\ UNCHANGED roundVars

\* getOrCreateWallet: insertOne resolves (or throws); either way the
\* wallet returned carries the default balances.
BetInsertOneDone ==
  \E req \in betReqs, ok \in BOOLEAN :
    /\ req.pc = "insertOne"
    /\ wallets' = IF ok THEN [wallets EXCEPT ![req.username] =
                                Append(@, DefaultBalances)]
                  ELSE wallets
    /\ BetAfterWallet(req, req, DefaultBalances,
                      IF ok THEN <<>> ELSE <<ConsoleError("Wallet error:")>>)
    /\ UNCHANGED <<cashReqs, nReqs, credits>>
    /\ UNCHANGED roundVars

\* The debit resolves (or throws: the error is logged) and the handler
\* runs to its end.
BetUpdateOneDone ==
  \E req \in betReqs, ok \in BOOLEAN :
    /\ req.pc = "updateOne"
    /\ wallets' = IF ok THEN IncWallet(wallets, req.username, req.cryptoType,
                                       0 - req.cryptoAmount)
                  ELSE wallets
    /\ BetCommit(req, IF ok THEN <<>>
                       ELSE <<ConsoleError("Error updating wallet:")>>)
    /\ UNCHANGED <<cashReqs, nReqs, credits>>
    /\ UNCHANGED roundVars

\* ---------------------------------------------- socket.on("cashout")
\* bet.cryptoAmount * gameState.multiplier
Payout(cryptoAmount, multiplier) == (cryptoAmount * multiplier) \div MultScale

\* payout * cryptoPrices[bet.cryptoType]
UsdPayout(payout, price) == (payout * price) \div CoinScale

\* Lines 428-450: the cashout is put into the map, broadcast and confirmed.
CashoutCommit(req, logged) ==
  /\ gameState' =
       [gameState EXCEPT !.cashedOut =
          MapSet(@, req.username,
                 [multiplier |-> gameState.multiplier, payout |-> req.payout,
                  usdPayout |-> req.usdPayout])]
  /\ emitted' = logged \o
                <<[type |-> "playerCashout", username |-> req.username,
                   multiplier |-> gameState.multiplier, payout |-> req.payout,
                   usdPayout |-> req.usdPayout, cryptoType |-> req.cryptoType],
                  [type |-> "cashoutSuccess", to |-> req.username,
                   multiplier |-> gameState.multiplier, payout |-> req.payout,
                   usdPayout |-> req.usdPayout, cryptoType |-> req.cryptoType]>>
  /\ cashReqs' = cashReqs \ {req}
  /\ credits' = [credits EXCEPT ![req.username] = @ + 1]

\* The synchronous checks of the handler; "" when both pass.
CashoutReject(username) ==
  IF username \notin DOMAIN gameState.players THEN "No bet placed"
  ELSE IF username \in DOMAIN gameState.cashedOut THEN "Already cashed out"
  ELSE ""

\* The handler runs from the message to its await on the credit; without
\* a database it runs to its end.  readRound is the round that was running
\* when the handler read the multiplier (Null: none was).
CashoutStartOf(users, budget) ==
  /\ nReqs < budget
  /\ nReqs' = nReqs + 1
  /\ \E username \in users :
       LET err == CashoutReject(username) IN
       IF err # ""
       THEN /\ emitted' = <<[type |-> "error", to |-> username,
                             message |-> err]>>
            /\ UNCHANGED <<gameState, cashReqs, credits>>
       ELSE LET bet == gameState.players[username]
                payout == Payout(bet.cryptoAmount, gameState.multiplier)
                req == [id |-> FreeId(cashReqs), username |-> username,
                        cryptoType |-> bet.cryptoType, payout |-> payout,
                        usdPayout |-> UsdPayout(payout, cryptoPrices[bet.cryptoType]),
                        readRound |-> IF gameState.isActive
                                      THEN gameState.roundId ELSE Null,
                        span |-> 0]
            IN IF db
               THEN /\ cashReqs' = cashReqs \cup {req}
                    /\ emitted' = <<>>
                    /\ UNCHANGED <<gameState, credits>>
               ELSE CashoutCommit(req, <<>>)
  /\ UNCHANGED <<wallets, betReqs, debits, announced>>
  /\ UNCHANGED roundVars

CashoutStart == CashoutStartOf(Players, MaxReqs)

\* The credit resolves (or throws: the error is logged) and the handler
\* runs to its end.
CashoutUpdateOneDone ==
  \E req \in cashReqs, ok \in BOOLEAN :
    /\ wallets' = IF ok THEN IncWallet(wallets, req.username, req.cryptoType,
                                       req.payout)
                  ELSE wallets
    /\ CashoutCommit(req, IF ok THEN <<>>
                           ELSE <<ConsoleError("Error updating wallet:")>>)
    /\ UNCHANGED <<betReqs, nReqs, debits, announced>>
    /\ UNCHANGED roundVars

\* ------------------------------------------------ io.on("connection")
\* A client connects: the running round is replayed to its socket, then
\* the current prices.
Connection ==
  /\ emitted' = (IF gameState.isActive
                 THEN <<[type |-> "roundStart", to |-> "socket",
                         roundId |-> gameState.roundId,
                         multiplier |-> gameState.multiplier]>>
                 ELSE <<>>)
                \o <<[type |-> "priceUpdate", to |-> "socket",
                      prices |-> cryptoPrices]>>
  /\ UNCHANGED <<gameState, wallets, betReqs, cashReqs, nReqs, debits, announced, credits>>
  /\ UNCHANGED roundVars

\* ------------------------------------------------- round archive write
\* The rounds.insertOne awaited at the end of crashGame resolves; a
\* rejection is caught and logged.
ArchiveInsertDone ==
  \E a \in archiveReqs, ok \in BOOLEAN :
    /\ archiveReqs' = archiveReqs \ {a}
    /\ emitted' = IF ok THEN <<>> ELSE <<ConsoleError("Error saving round:")>>
    /\ UNCHANGED <<gameState, cryptoPrices, db, wallets, now, timers, initPc,
                   betReqs, cashReqs, nReqs, resets, debits, announced, credits,
                   generated, played, genIn, genOut, priceUpdateInterval,
                   shutdown, appends>>

\* ------------------------------------------------ process.on("SIGTERM")
\* The price interval is cleared and the HTTP server stops listening; the
\* timers of the round are not touched.
Sigterm ==
  /\ shutdown' = TRUE
  /\ priceUpdateInterval' = FALSE
  /\ emitted' = <<>>
  /\ UNCHANGED <<gameState, cryptoPrices, db, wallets, now, timers, initPc,
                 betReqs, cashReqs, nReqs, resets, debits, announced, credits,
                 generated, played, genIn, genOut, archiveReqs, appends>>

Next ==
  \/ ConnectDB
  \/ InitFetchDone
  \/ FetchCryptoPrices
  \/ TickTimer
  \/ CrashDisplayTimer
  \/ BettingTimer
  \/ BetStart
  \/ BetFindOneDone
  \/ BetInsertOneDone
  \/ BetUpdateOneDone
  \/ CashoutStart
  \/ CashoutUpdateOneDone
  \/ ArchiveInsertDone
  \/ Connection

Spec == Init /\ [][Next]_vars

\* One player racing itself: up to MaxRaceReqs requests of player p1.
RaceBetStart == BetStartOf(RaceInputs, MaxRaceReqs)

RaceCashoutStart == CashoutStartOf({"p1"}, MaxRaceReqs)

NextRace ==
  \/ ConnectDB
  \/ InitFetchDone
  \/ FetchCryptoPrices
  \/ TickTimer
  \/ CrashDisplayTimer
  \/ BettingTimer
  \/ RaceBetStart
  \/ BetFindOneDone
  \/ BetInsertOneDone
  \/ BetUpdateOneDone
  \/ RaceCashoutStart
  \/ CashoutUpdateOneDone
  \/ ArchiveInsertDone

SpecRace == Init /\ [][NextRace]_vars

\* The round cycle on its own, with long rounds and with ticks that fire on
\* time or one tick period late.
LongInitFetchDone == InitFetchDoneOf(LongSeeds)

LateTickTimer == TickTimerAt({0, TickMs})

NextTick ==
  \/ ConnectDB
  \/ LongInitFetchDone
  \/ LateTickTimer
  \/ CrashDisplayTimer
  \/ BettingTimer
  \/ ArchiveInsertDone

SpecTick == Init /\ [][NextTick]_vars

\* The event loop runs every timer callback that is due, and every call to
\* the database and to the price source resolves or rejects.
Fairness ==
  /\ WF_vars(ConnectDB)
  /\ WF_vars(InitFetchDone)
  /\ WF_vars(TickTimer)
  /\ WF_vars(CrashDisplayTimer)
  /\ WF_vars(BettingTimer)
  /\ WF_vars(BetFindOneDone)
  /\ WF_vars(BetInsertOneDone)
  /\ WF_vars(BetUpdateOneDone)
  /\ WF_vars(ArchiveInsertDone)

\* The round cycle with the requests that can be awaiting the database
\* when a timer is due.
LiveBetStart == BetStartOf(RaceInputs, MaxLiveReqs)

NextLive ==
  \/ ConnectDB
  \/ InitFetchDone
  \/ TickTimer
  \/ CrashDisplayTimer
  \/ BettingTimer
  \/ LiveBetStart
  \/ BetFindOneDone
  \/ BetInsertOneDone
  \/ BetUpdateOneDone
  \/ ArchiveInsertDone

SpecLive == Init /\ [][NextLive]_vars /\ Fairness

\* Requests served one at a time: a request arrives when no handler is
\* awaiting the database; clients connect at any time.
SeqBetStart ==
  /\ betReqs = {}
  /\ cashReqs = {}
  /\ BetStartOf(BetInputs, MaxRaceReqs)

SeqCashoutStart ==
  /\ betReqs = {}
  /\ cashReqs = {}
  /\ CashoutStartOf(Players, MaxRaceReqs)

NextSeq ==
  \/ ConnectDB
  \/ InitFetchDone
  \/ FetchCryptoPrices
  \/ TickTimer
  \/ CrashDisplayTimer
  \/ BettingTimer
  \/ SeqBetStart
  \/ BetFindOneDone
  \/ BetInsertOneDone
  \/ BetUpdateOneDone
  \/ SeqCashoutStart
  \/ CashoutUpdateOneDone
  \/ ArchiveInsertDone
  \/ Connection

SpecSeq == Init /\ [][NextSeq]_vars

\* The round cycle and the price feed alone, with a shutdown request.
NextCycle ==
  \/ ConnectDB
  \/ InitFetchDone
  \/ FetchCryptoPrices
  \/ TickTimer
  \/ CrashDisplayTimer
  \/ BettingTimer
  \/ ArchiveInsertDone
  \/ Connection
  \/ Sigterm

SpecCycle == Init /\ [][NextCycle]_vars

\* The crash-point formula on its own: every value of the hash prefix.
InitGen ==
  /\ InitServer
  /\ genIn \in 0..HashMax
  /\ genOut = Null

Generate ==
  /\ genOut = Null
  /\ genOut' = crashPointOfPrefix(genIn)
  /\ UNCHANGED <<gameState, cryptoPrices, db, wallets, now, timers, initPc,
                 betReqs, cashReqs, nReqs, emitted, resets, debits, announced, credits,
                 generated, played, genIn, priceUpdateInterval, shutdown,
                 archiveReqs, appends>>

NextGen == Generate

SpecGen == InitGen /\ [][NextGen]_vars

\* ------------------------------------------------------------ claims
EventsOf(type) == {i \in DOMAIN emitted : emitted[i].type = type}

\* C1: a cashout succeeds only while the round is ACTIVE; in the crash
\* display delay, in the betting window and before the first round it is
\* rejected, so cashoutSuccess is never sent while isActive is false.
C1_CashoutOnlyWhileActive ==
  \A i \in EventsOf("cashoutSuccess") : gameState.isActive

\* C2: of the cashout requests of one player in one round exactly one
\* succeeds: no player has two cashouts recorded (and announced, and
\* credited) between two replacements of the maps.
C2_CashoutOncePerRound ==
  \A p \in Players : credits[p] <= 1

\* C3: of the bets of one player in one round at most one succeeds: no
\* player has two bets recorded (and debited) between two replacements of
\* the maps.
C3_BetOncePerRound ==
  \A p \in Players : debits[p] <= 1

\* C4: no wallet balance of any player and asset is negative.
C4_NoNegativeBalance ==
  \A p \in Players : \A i \in DOMAIN wallets[p] : \A c \in CryptoTypes :
    wallets[p][i][c] >= 0

\* C5: every player in the cashouts map is in the bets map.
C5_CashoutsSubsetOfBets ==
  DOMAIN gameState.cashedOut \subseteq DOMAIN gameState.players

\* C6: a bet succeeds only while betting is open: playerBet is never
\* broadcast while isBettingOpen is false.
C6_BetOnlyWhileBettingOpen ==
  \A i \in EventsOf("playerBet") : gameState.isBettingOpen

\* C7: every cashout of a bet that played in the round is recorded and
\* announced with a multiplier strictly below the crash point of the round.
C7_CashoutBelowCrashPoint ==
  \A i \in EventsOf("playerCashout") :
    emitted[i].username \in played =>
      /\ emitted[i].multiplier < gameState.crashPoint
      /\ gameState.cashedOut[emitted[i].username].multiplier < gameState.crashPoint

\* C8: for every value of the hash prefix, the largest included, the crash
\* point lies between 1.01 and 100.
C8_CrashPointRange ==
  genOut # Null => (CrashFloor <= genOut /\ genOut <= CrashCap)

\* The largest prefix (randomValue = 1) has been through the formula and
\* came out at the cap.
C8_Witness == genIn = HashMax /\ genOut = CrashCap

C10_CommitReveal ==
  /\ \A i \in EventsOf("roundStart") :
       /\ "seedHash" \in DOMAIN emitted[i]
       /\ emitted[i].seedHash = sha256(gameState.seed)
  /\ \A i \in EventsOf("roundCrash") :
       /\ "seed" \in DOMAIN emitted[i]
       /\ emitted[i].seed = gameState.seed
\* C11: no event other than roundCrash and crashDisplay, which are sent at
\* the crash, carries a crashPoint or a seed: roundStart, its replay on
\* connection, multiplierUpdate, playerBet, playerCashout, cashoutSuccess
\* and priceUpdate reveal neither.
C11_CrashPointHiddenUntilCrash ==
  \A i \in DOMAIN emitted :
    emitted[i].type \notin {"roundCrash", "crashDisplay"} =>
      /\ "crashPoint" \notin DOMAIN emitted[i]
      /\ "seed" \notin DOMAIN emitted[i]

\* A client connected in the middle of a round whose crash point is set:
\* the round was replayed to it with the multiplier reached so far.
C11_Witness ==
  /\ gameState.isActive
  /\ gameState.crashPoint > gameState.multiplier
  /\ \E i \in EventsOf("roundStart") :
       /\ emitted[i].multiplier > MultScale
       /\ emitted[i].roundId = gameState.roundId
\* C12: the phase changes only from BETTING_OPEN to ACTIVE, from ACTIVE to
\* CRASHED and from CRASHED to BETTING_OPEN; in particular every ACTIVE
\* phase, the first one included, follows a BETTING_OPEN phase.
C12_PhaseCycle ==
  [][Phase(gameState') # Phase(gameState) =>
       <<Phase(gameState), Phase(gameState')>> \in
         {<<"BETTING_OPEN", "ACTIVE">>, <<"ACTIVE", "CRASHED">>,
          <<"CRASHED", "BETTING_OPEN">>}]_vars
\* C13: the payout of every announced cashout is the bet's cryptoAmount
\* times the multiplier that the announcement and the cashouts map carry,
\* and its usdPayout is that payout at the current price.
C13_PayoutLaw ==
  \A i \in EventsOf("playerCashout") :
    LET e == emitted[i] IN
    e.username \in DOMAIN gameState.players =>
      /\ gameState.cashedOut[e.username].multiplier = e.multiplier
      /\ e.payout = Payout(gameState.players[e.username].cryptoAmount,
                           e.multiplier)
\* C14: a cashout that was read while a round was ACTIVE is recorded and
\* announced only while that same round is still ACTIVE: the credit of such
\* a cashout never resolves into a success after the crash.
C14_CashoutAtomicWithCrash ==
  [][\A req \in cashReqs :
       (/\ req.readRound # Null
        /\ \A r \in cashReqs' : r.id # req.id
        /\ EventsOf("cashoutSuccess")' # {})
       => (gameState.isActive /\ gameState.roundId = req.readRound)]_vars
\* The wallet update of the handler that ran in the last step threw.
UpdateFailed ==
  \E i \in EventsOf("console.error") :
    emitted[i].message = "Error updating wallet:"

\* C15: when the debit of a bet fails, no playerBet is broadcast and the
\* request is not answered with success.
C15_FailedDebitRecordsNoBet ==
  UpdateFailed =>
    /\ EventsOf("playerBet") = {}
    /\ \A i \in EventsOf("betResponse") : ~emitted[i].success

\* C16: when the credit of a cashout fails, neither playerCashout nor
\* cashoutSuccess is emitted.
C16_FailedCreditRecordsNoCashout ==
  UpdateFailed =>
    /\ EventsOf("playerCashout") = {}
    /\ EventsOf("cashoutSuccess") = {}
ValidationErrors ==
  {"Missing required fields", "Bet must be between $1 and $1000",
   "Invalid crypto type"}

\* C17: in every state, whatever the phase, a bet whose usdAmount is
\* outside [1, 1000] or whose cryptoType is not BTC or ETH is rejected with
\* a validation error, and a step that answers with a validation error
\* leaves the bets map, the cashouts map and every wallet unchanged.
C17_InvalidBetRejected ==
  /\ [](\A inp \in BetInputs :
         (inp[2] < MinBetUsd \/ inp[2] > MaxBetUsd \/ inp[3] \notin CryptoTypes)
         => BetReject(inp[1], inp[2], inp[3]) \in ValidationErrors)
  /\ [][(\E i \in DOMAIN emitted' :
           /\ emitted'[i].type = "betResponse"
           /\ ~emitted'[i].success
           /\ emitted'[i].error \in ValidationErrors)
        => /\ gameState'.players = gameState.players
           /\ gameState'.cashedOut = gameState.cashedOut
           /\ wallets' = wallets]_vars

\* An out-of-range bet was rejected during a running round that has a bet
\* in it, with a wallet document in the store.
C17_Witness ==
  /\ gameState.isActive
  /\ DOMAIN gameState.players # {}
  /\ \E p \in Players : wallets[p] # <<>>
  /\ \E i \in EventsOf("betResponse") :
       /\ ~emitted[i].success
       /\ emitted[i].error = "Bet must be between $1 and $1000"
\* C18: a bet is answered with success only if the balance stored for the
\* player and the asset, as it stands when the bet is recorded, covers the
\* bet's cryptoAmount.
C18_BetCoveredByStoredBalance ==
  [][\A i \in DOMAIN emitted' :
       LET e == emitted'[i] IN
       (/\ e.type = "betResponse"
        /\ e.success
        /\ db
        /\ wallets[e.to] # <<>>)
       => wallets[e.to][1][e.cryptoType] >= e.cryptoAmount]_vars
TickTimers == {t \in timers : t.kind = "tick"}

\* C19: a multiplierUpdate is emitted only while a round is ACTIVE and
\* carries the id and the multiplier of that round; a tick is pending only
\* while a round is ACTIVE, and never two of them; from the crash to the
\* next round start the multiplier stays the one the crashing tick set, the
\* first tick value to reach the crash point.
C19_NoTickOutsideActive ==
  /\ \A i \in EventsOf("multiplierUpdate") :
       /\ gameState.isActive
       /\ emitted[i].roundId = gameState.roundId
       /\ emitted[i].multiplier = gameState.multiplier
  /\ TickTimers # {} => gameState.isActive
  /\ Cardinality(TickTimers) <= 1
  /\ (~gameState.isActive /\ gameState.roundId # Null) =>
       /\ gameState.multiplier >= gameState.crashPoint
       /\ gameState.multiplier < gameState.crashPoint + TickMs

\* The second round has started after a crash and a betting window, and
\* sent its first multiplierUpdate with its own round id.
C19_Witness ==
  /\ resets >= 1
  /\ gameState.isActive
  /\ gameState.roundId > 0
  /\ \E i \in EventsOf("multiplierUpdate") :
       emitted[i].roundId = gameState.roundId
\* C20: with timers that fire and database calls that resolve, every
\* ACTIVE round crashes, after every crash betting opens, and after every
\* betting window a round starts, as far as the clock of the model runs.
C20_CycleProgress ==
  /\ (/\ gameState.isActive
      /\ gameState.startTime + (gameState.crashPoint - MultScale) + TickMs
           <= MaxTime)
     ~> (Phase(gameState) = "CRASHED")
  /\ (Phase(gameState) = "CRASHED" /\ now + CrashDisplayMs <= MaxTime)
     ~> gameState.isBettingOpen
  /\ (gameState.isBettingOpen /\ now + BettingMs <= MaxTime)
     ~> gameState.isActive

\* A round has crashed, betting has opened and closed, and the next round
\* is running.
C20_Witness ==
  /\ gameState.isActive
  /\ gameState.startTime >= TickMs + CrashDisplayMs + BettingMs
  /\ resets >= 1
\* C22: every bet in the map satisfies cryptoAmount = usdAmount /
\* priceAtTime.
C22_BetPriceSnapshot ==
  \A p \in DOMAIN gameState.players :
    LET bet == gameState.players[p] IN
    bet.cryptoAmount = UsdToCrypto(bet.usdAmount, bet.priceAtTime)

\* C23: when betting opens both maps are empty, and they lose entries at
\* no other point: every bet recorded since the maps were last replaced is
\* in the bets map, every cashout recorded since is in the cashouts map,
\* and the bets that were in the map when the round started are still in it.
C23_MapsClearedOnlyAtReopen ==
  /\ EventsOf("bettingOpen") # {} =>
       /\ gameState.isBettingOpen
       /\ DOMAIN gameState.players = {}
       /\ DOMAIN gameState.cashedOut = {}
  /\ \A p \in Players :
       /\ debits[p] > 0 => p \in DOMAIN gameState.players
       /\ credits[p] > 0 => p \in DOMAIN gameState.cashedOut
  /\ played \subseteq DOMAIN gameState.players

\* A bet accepted in the betting window after the first crash is in the
\* map of the round that followed.
C23_Witness ==
  /\ resets >= 1
  /\ gameState.isActive
  /\ played # {}
  /\ \E p \in played : debits[p] = 1
\* C26: while a round is ACTIVE its multiplier is below its crash point,
\* and so is the multiplier of every multiplierUpdate; the step that sends
\* roundCrash has computed a multiplier at or above the crash point, sends
\* no multiplierUpdate and leaves no tick pending.
C26_CrashAtFirstTickAtOrAbove ==
  /\ gameState.isActive => gameState.multiplier < gameState.crashPoint
  /\ \A i \in EventsOf("multiplierUpdate") :
       emitted[i].multiplier < gameState.crashPoint
  /\ EventsOf("roundCrash") # {} =>
       /\ ~gameState.isActive
       /\ gameState.multiplier >= gameState.crashPoint
       /\ EventsOf("multiplierUpdate") = {}
       /\ TickTimers = {}

\* A tick computed a multiplier equal to the crash point and crashed the
\* round.
C26_Witness ==
  /\ EventsOf("roundCrash") # {}
  /\ gameState.multiplier = gameState.crashPoint

\* C27: no bet is put into the map while a round is ACTIVE: playerBet is
\* never broadcast by a step that ends with isActive true.
C27_NoBetInsertedWhileActive ==
  \A i \in EventsOf("playerBet") : ~gameState.isActive
\* C29: the wallets collection holds at most one document per player.
C29_OneWalletPerPlayer ==
  \A p \in Players : Len(wallets[p]) <= 1
\* C21: while a round is ACTIVE the multiplier is 1 + 0.1 per second of
\* the time elapsed since the round started, whatever the number of ticks
\* that fired; it is 1.0 when roundStart is sent and never below 1.0.
C21_MultiplierFromElapsedTime ==
  /\ gameState.isActive =>
       /\ gameState.multiplier = MultScale + (now - gameState.startTime)
       /\ gameState.multiplier >= MultScale
  /\ \A i \in EventsOf("roundStart") :
       /\ emitted[i].multiplier = MultScale
       /\ gameState.multiplier = MultScale
       /\ gameState.startTime = now
  /\ \A i \in EventsOf("multiplierUpdate") :
       emitted[i].multiplier = MultScale + (now - gameState.startTime)

\* 14.5 s into a round that is still running: the multiplier is 2.45 and the
\* next tick is pending.
C21_Witness ==
  /\ gameState.isActive
  /\ now - gameState.startTime = 14500
  /\ gameState.multiplier = 24500
  /\ \E t \in timers : t.kind = "tick" /\ t.due = now + TickMs
\* C24: once shutdown has been requested (SIGTERM) of the initialised
\* server no round timer fires: no step changes the game state or the
\* pending timers, and
\* no multiplierUpdate, roundCrash, crashDisplay, bettingOpen or broadcast
\* roundStart is emitted.
C24_NoTimerAfterShutdown ==
  [][(shutdown /\ initPc = "done") =>
       /\ gameState' = gameState
       /\ timers' = timers
       /\ \A i \in DOMAIN emitted' :
            \/ emitted'[i].type \notin {"multiplierUpdate", "roundCrash",
                                       "crashDisplay", "bettingOpen",
                                       "roundStart"}
            \/ "to" \in DOMAIN emitted'[i]]_vars

\* The price fetch that resolved in the last step failed.
PriceFetchFailed ==
  \E i \in EventsOf("console.error") :
    emitted[i].message = "Price fetch error:"

ArchiveFailed ==
  \E i \in EventsOf("console.error") :
    emitted[i].message = "Error saving round:"

\* C30: the archive write of a crashed round stays off the round cycle.  A
\* crash issues at most one write, in the crashing step, built from the
\* round's roundId, crashPoint, seed and the bets then in the map (none
\* without a database).  Whether that write is outstanding, has succeeded
\* or has failed, the CRASHED phase has its display timer and the
\* BETTING_OPEN phase its betting timer, due 5 s and 15 s after the crash;
\* the step in which the write fails changes neither the game state nor a
\* timer nor the clock.
C30_ArchiveOffTheCycle ==
  /\ [](/\ appends <= 1
        /\ Cardinality(archiveReqs) <= appends
        /\ EventsOf("roundCrash") # {} =>
             /\ appends = IF db THEN 1 ELSE 0
             /\ archiveReqs =
                  IF db
                  THEN {[roundId |-> gameState.roundId,
                         crashPoint |-> gameState.crashPoint,
                         seed |-> gameState.seed,
                         startTime |-> gameState.startTime,
                         endTime |-> now,
                         players |-> gameState.players]}
                  ELSE {}
        /\ Phase(gameState) = "CRASHED" =>
             \E t \in timers : t.kind = "display" /\ t.due <= now + CrashDisplayMs
        /\ Phase(gameState) = "BETTING_OPEN" =>
             \E t \in timers : t.kind = "betting" /\ t.due <= now + BettingMs
        /\ \A a \in archiveReqs :
             \/ [kind |-> "display", due |-> a.endTime + CrashDisplayMs] \in timers
             \/ [kind |-> "betting",
                 due |-> a.endTime + CrashDisplayMs + BettingMs] \in timers)
  /\ [][ArchiveFailed' => UNCHANGED <<gameState, timers, now>>]_vars

\* The archive write of a crashed round has failed after the display delay
\* ran out: betting is open and its timer is pending.
C30_Witness ==
  /\ ArchiveFailed
  /\ appends = 1
  /\ gameState.isBettingOpen
  /\ \E t \in timers : t.kind = "betting"
\* The handler that ran in the last step refused its request.
Rejected ==
  \E i \in DOMAIN emitted :
    \/ emitted[i].type = "betResponse" /\ ~emitted[i].success
    \/ emitted[i].type = "error"

\* The balances getOrCreateWallet returns for a player: those of the stored
\* wallet, the defaults when none is stored.
BalancesOf(w, p) == IF w[p] = <<>> THEN DefaultBalances ELSE w[p][1]

\* C28: a step that refuses a bet (missing fields, range, asset, duplicate,
\* betting closed, insufficient balance) or a cashout (no bet placed,
\* already cashed out) leaves the bets map, the cashouts map, every
\* player's balances, the phase and the pending timers as they were and
\* emits no playerBet, playerCashout or cashoutSuccess.
C28_RejectionChangesNothing ==
  [][Rejected' =>
       /\ gameState'.players = gameState.players
       /\ gameState'.cashedOut = gameState.cashedOut
       /\ \A p \in Players : BalancesOf(wallets', p) = BalancesOf(wallets, p)
       /\ Phase(gameState') = Phase(gameState)
       /\ timers' = timers
       /\ EventsOf("playerBet")' = {}
       /\ EventsOf("playerCashout")' = {}
       /\ EventsOf("cashoutSuccess")' = {}]_vars

\* A second cashout of a player who bet and cashed out has just been
\* refused.
C28_Witness ==
  /\ \E i \in EventsOf("error") : emitted[i].message = "Already cashed out"
  /\ \E p \in DOMAIN gameState.cashedOut : p \in DOMAIN gameState.players
\* C31: isActive and isBettingOpen are never both true: the two flags
\* encode one of ACTIVE (isActive alone), BETTING_OPEN (isBettingOpen
\* alone) and CRASHED or idle (neither); betting is open only between
\* rounds, after a first round has run.
C31_FlagsExclusive ==
  /\ ~(gameState.isActive /\ gameState.isBettingOpen)
  /\ gameState.isBettingOpen => gameState.roundId # Null

\* The betting window has just closed into a running round: the round
\* start after a reset of the maps is announced.
C31_Witness ==
  /\ resets >= 1
  /\ gameState.isActive
  /\ ~gameState.isBettingOpen
  /\ \E i \in EventsOf("roundStart") : "to" \notin DOMAIN emitted[i]
\* The timers of kind k that are pending.
TimersOf(k) == {t \in timers : t.kind \in k}

\* C32: one round cycle runs at a time and each round crashes once.  At
\* most one tick timer and at most one phase timer (display delay or
\* betting window) is pending.  roundCrash is emitted once, by the step
\* that takes the round from ACTIVE to CRASHED; bettingOpen once, by the
\* step from CRASHED to BETTING_OPEN; the broadcast roundStart once, by the
\* step into ACTIVE from BETTING_OPEN (from idle for the first round); and
\* the phase changes in no other step.  Hence between two consecutive round
\* starts there is exactly one roundCrash followed by exactly one
\* bettingOpen.
C32_OneCycleOneCrash ==
  /\ [](/\ Cardinality(TimersOf({"tick"})) <= 1
        /\ Cardinality(TimersOf({"display", "betting"})) <= 1)
  /\ [][LET starts == {i \in EventsOf("roundStart")' :
                         "to" \notin DOMAIN emitted'[i]}
             crashes == EventsOf("roundCrash")'
             opens == EventsOf("bettingOpen")'
         IN /\ Cardinality(starts) <= 1
            /\ Cardinality(crashes) <= 1
            /\ Cardinality(opens) <= 1
            /\ crashes # {} <=> (Phase(gameState) = "ACTIVE" /\
                                 Phase(gameState') = "CRASHED")
            /\ opens # {} <=> (Phase(gameState) = "CRASHED" /\
                               Phase(gameState') = "BETTING_OPEN")
            /\ starts # {} <=> (Phase(gameState) \in {"IDLE", "BETTING_OPEN"} /\
                                Phase(gameState') = "ACTIVE")
            /\ Phase(gameState') # Phase(gameState) =>
                 (crashes # {} \/ opens # {} \/ starts # {})]_vars

\* The first round has crashed once and betting has just been opened once:
\* the betting-window timer is the only timer pending.
C32_Witness ==
  /\ EventsOf("bettingOpen") # {}
  /\ resets = 1
  /\ Len(generated[1]) + Len(generated[2]) = 1
  /\ timers = {[kind |-> "betting", due |-> now + BettingMs]}
\* The values that identify a round.
RoundIdentity(gs) == <<gs.crashPoint, gs.seed, gs.roundId, gs.startTime>>

\* C33: crashPoint, seed, roundId and startTime are set by the step that
\* makes a round ACTIVE, with the betting window closed, and by no other
\* step: bets, cashouts, ticks, price updates and the crash leave them as
\* they are until the next round starts.  The step that sets them names
\* the round after the time of its start and draws the crash point from
\* the seed.
C33_RoundIdentityFixed ==
  [][RoundIdentity(gameState') # RoundIdentity(gameState) =>
       /\ \E i \in EventsOf("roundStart")' :
            /\ "to" \notin DOMAIN emitted'[i]
            /\ emitted'[i].roundId = gameState'.roundId
       /\ ~gameState.isActive
       /\ gameState'.isActive
       /\ ~gameState'.isBettingOpen
       /\ gameState'.roundId = now'
       /\ gameState'.startTime = now'
       /\ gameState'.crashPoint =
            generateCrashPoint(gameState'.seed).crashPoint]_vars

\* A round in which a player bet and cashed out has just crashed, some
\* ticks after its start, and still carries the values it started with.
C33_Witness ==
  /\ EventsOf("roundCrash") # {}
  /\ gameState.cashedOut # NoPlayers
  /\ gameState.players # NoPlayers
  /\ now > gameState.startTime + TickMs
  /\ gameState.roundId = gameState.startTime
  /\ gameState.crashPoint = generateCrashPoint(gameState.seed).crashPoint
\* The bet of player p in the map was paid for: its amount is missing from
\* the stored wallet.
PaidBet(p) ==
  /\ p \in DOMAIN gameState.players
  /\ wallets[p] # <<>>
  /\ LET bet == gameState.players[p]
     IN wallets[p][1][bet.cryptoType] =
          DefaultBalances[bet.cryptoType] - bet.cryptoAmount

\* C35: no paid bet is discarded unplayed: a bet that was debited leaves
\* the bets map only after it has been in the map of a round that became
\* ACTIVE.
C35_NoPaidBetDiscarded ==
  [][\A p \in Players :
       (PaidBet(p) /\ p \notin DOMAIN gameState'.players) => p \in played]_vars
\* C34: the roundId that a successful bet was answered and broadcast with
\* is the roundId of the round in which the bet plays: while a round that
\* followed a betting window is ACTIVE, every bet that was in the map when
\* it started was announced with the roundId of that round.
C34_BetAnnouncesItsRound ==
  (gameState.isActive /\ resets >= 1) =>
    \A p \in played :
      (p \in DOMAIN announced /\ p \in DOMAIN gameState.players) =>
        announced[p] = gameState.roundId
\* The stored wallets of the players other than p, and the balance of p in
\* the assets other than c, are the same before and after the step.
OnlyChanges(p, c) ==
  /\ \A q \in Players \ {p} : wallets'[q] = wallets[q]
  /\ \A d \in CryptoTypes \ {c} : wallets'[p][1][d] = wallets[p][1][d]

\* C36: wallets change only through the player's own successful
\* operations.  With a database attached and the player's wallet stored, the
\* step that answers a bet with success takes exactly the bet's
\* cryptoAmount from that player's balance of the chosen asset, the step
\* that answers a cashout with success adds exactly the payout to that
\* player's balance of the bet's asset, each leaves every other balance,
\* bet and cashout alone, and no other step changes a stored balance.
C36_OwnOperationsOnly ==
  [][/\ \A i \in EventsOf("betResponse")' :
          LET e == emitted'[i] IN
          (e.success /\ db /\ wallets[e.to] # <<>>) =>
            /\ wallets'[e.to][1][e.cryptoType] =
                 wallets[e.to][1][e.cryptoType] - e.cryptoAmount
            /\ OnlyChanges(e.to, e.cryptoType)
            /\ \A q \in DOMAIN gameState.players \ {e.to} :
                 /\ q \in DOMAIN gameState'.players
                 /\ gameState'.players[q] = gameState.players[q]
            /\ gameState'.cashedOut = gameState.cashedOut
     /\ \A i \in EventsOf("cashoutSuccess")' :
          LET e == emitted'[i] IN
          (db /\ wallets[e.to] # <<>>) =>
            /\ wallets'[e.to][1][e.cryptoType] =
                 wallets[e.to][1][e.cryptoType] + e.payout
            /\ OnlyChanges(e.to, e.cryptoType)
            /\ \A q \in DOMAIN gameState.cashedOut \ {e.to} :
                 /\ q \in DOMAIN gameState'.cashedOut
                 /\ gameState'.cashedOut[q] = gameState.cashedOut[q]
            /\ gameState'.players = gameState.players
     /\ (\E p \in Players : BalancesOf(wallets', p) # BalancesOf(wallets, p)) =>
          \E i \in DOMAIN emitted' :
            \/ emitted'[i].type = "betResponse" /\ emitted'[i].success
            \/ emitted'[i].type = "cashoutSuccess"]_vars
====
